---- MODULE Spec2Model ----
(***************************************************************************)
(* Model of the P4 typemap editor (src/src/p4typemaptool/p4typemaptool.js). *)
(*                                                                         *)
(* The source file holds two versions of the editor, one after the other:  *)
(*   - lines 1..1801: the current editor (change tracking, templates,      *)
(*     moveRuleUp/moveRuleDown exchanging order values);                   *)
(*   - lines 1803..2693: the earlier editor (text-form parser, path test,  *)
(*     drag and drop, moveRuleUp/moveRuleDown exchanging array slots).     *)
(* Definitions of the earlier editor carry the prefix "legacy_".           *)
(*                                                                         *)
(* A JavaScript string is modelled as a sequence of one-character strings, *)
(* so that trimming, splitting, searching and replacing are computed the   *)
(* way the code computes them.                                             *)
(***************************************************************************)
EXTENDS Integers, Sequences, FiniteSets, TLC

VARIABLES
    typemapRules,       \* the global rule array, in array order
    hasUnsavedChanges,  \* the change-tracking flag
    nextId,             \* generateId: the next fresh identifier
    lastOp,             \* name of the handler that ran last
    mergeTpl,           \* template rules handed to the last mergeTemplateRules
    mergeResult,        \* report returned by the last mergeTemplateRules
    sentText,           \* form data of the last p4 typemap -i request
    savePending,        \* a p4 typemap -i request is awaiting its answer
    testResult,         \* what the last testPath displayed
    loadedData,         \* result.data handed to the last parseTypemapData
    templateContent,    \* text handed to the last parseTemplateContent
    urlLoad,            \* the last call of P4Utils.loadUrlWithFallback
    overlapCheck        \* the last call of checkPatternOverlap

\* The state of the editor
editorVars == <<typemapRules, hasUnsavedChanges, nextId, lastOp, mergeTpl,
                mergeResult, sentText, savePending, testResult, loadedData,
                templateContent>>

vars == <<editorVars, urlLoad, overlapCheck>>

-----------------------------------------------------------------------------
(* Bounds of the model *)

MaxRules == 3
MaxId == 3

-----------------------------------------------------------------------------
(* JavaScript string primitives over sequences of characters *)

Whitespace == {" ", "\t", "\n", "\r"}

Alnum ==
    {"a","b","c","d","e","f","g","h","i","j","k","l","m","n","o","p","q","r",
     "s","t","u","v","w","x","y","z",
     "A","B","C","D","E","F","G","H","I","J","K","L","M","N","O","P","Q","R",
     "S","T","U","V","W","X","Y","Z",
     "0","1","2","3","4","5","6","7","8","9"}

SetMin(S) == CHOOSE x \in S : \A y \in S : x <= y
SetMax(S) == CHOOSE x \in S : \A y \in S : x >= y

\* String.prototype.trim
trim(s) ==
    LET keep == {i \in 1..Len(s) : s[i] \notin Whitespace}
    IN  IF keep = {} THEN <<>> ELSE SubSeq(s, SetMin(keep), SetMax(keep))

\* String.prototype.startsWith
startsWith(s, p) == Len(p) <= Len(s) /\ SubSeq(s, 1, Len(p)) = p

\* String.prototype.indexOf: 0-based position of the first occurrence, or -1
indexOf(s, p) ==
    LET hits == {i \in 1..(Len(s) - Len(p) + 1) : SubSeq(s, i, i + Len(p) - 1) = p}
    IN  IF hits = {} THEN -1 ELSE SetMin(hits) - 1

\* String.prototype.includes
includes(s, p) == indexOf(s, p) >= 0

\* String.prototype.substring(from) and substring(0, to), 0-based
substringFrom(s, from) == SubSeq(s, from + 1, Len(s))
substringTo(s, to) == SubSeq(s, 1, to)

\* String.prototype.split(/\s+/)
RECURSIVE splitWs(_)
splitWs(s) ==
    LET ws == {i \in 1..Len(s) : s[i] \in Whitespace}
    IN  IF ws = {} THEN <<s>>
        ELSE LET a == SetMin(ws)
                 after == {i \in a..Len(s) : s[i] \notin Whitespace}
             IN  IF after = {} THEN <<SubSeq(s, 1, a - 1), <<>> >>
                 ELSE <<SubSeq(s, 1, a - 1)>>
                      \o splitWs(SubSeq(s, SetMin(after), Len(s)))

\* String.prototype.split("\n")
RECURSIVE splitLines(_)
splitLines(s) ==
    LET nl == {i \in 1..Len(s) : s[i] = "\n"}
    IN  IF nl = {} THEN <<s>>
        ELSE <<SubSeq(s, 1, SetMin(nl) - 1)>>
             \o splitLines(SubSeq(s, SetMin(nl) + 1, Len(s)))

\* Array.prototype.join
RECURSIVE join(_, _)
join(parts, sep) ==
    IF Len(parts) = 0 THEN <<>>
    ELSE IF Len(parts) = 1 THEN parts[1]
    ELSE parts[1] \o sep \o join(Tail(parts), sep)

\* String.prototype.replace(/pat/g, rep) for a literal pat: leftmost matches,
\* not overlapping, scanned once from left to right
RECURSIVE replaceAll(_, _, _)
replaceAll(s, pat, rep) ==
    IF Len(s) = 0 THEN <<>>
    ELSE IF startsWith(s, pat)
         THEN rep \o replaceAll(SubSeq(s, Len(pat) + 1, Len(s)), pat, rep)
         ELSE <<s[1]>> \o replaceAll(Tail(s), pat, rep)

\* Array.prototype.sort((a, b) => a.order - b.order): stable
RECURSIVE sortByOrder(_)
sortByOrder(rules) ==
    IF Len(rules) = 0 THEN <<>>
    ELSE LET n == Len(rules)
             r == rules[n]
             front == sortByOrder(SubSeq(rules, 1, n - 1))
             k == Cardinality({i \in 1..Len(front) : front[i].order <= r.order})
         IN  SubSeq(front, 1, k) \o <<r>> \o SubSeq(front, k + 1, Len(front))

-----------------------------------------------------------------------------
(* Strings of the program and of the modelled inputs *)

DotDotDot == <<".", ".", ".">>
FourDots == <<".", ".", ".", ".">>
HashHash == <<"#", "#">>
Space == <<" ">>
Indent == <<" ", " ", " ", " ", " ", " ", " ", " ">>
TypeMapMarker == <<"T","y","p","e","M","a","p",":">>
BroadWildcard == <<"/", "/", ".", ".", ".">>

FtText == <<"t","e","x","t">>
FtBinary == <<"b","i","n","a","r","y">>

PatTxt == <<"/","/",".",".",".",".","t","x","t">>
PatSpecialTxt ==
    <<"/","/","s","p","e","c","i","a","l","/",".",".",".",".","t","x","t">>
PatNew == <<"/","/",".",".",".",".">>

PatPsd == <<"/","/",".",".",".",".","p","s","d">>
CmtDocs == <<"d","o","c","s">>

-----------------------------------------------------------------------------
(* Rule model.  A rule is a record                                         *)
(*   [id, order, filetype, pattern, comment, fromTemplate];                *)
(* originalLine is written by the code and never read, and is left out.    *)
(* A missing comment property (addNewRule, line 460) is the empty string:  *)
(* every reader of rule.comment treats the two alike (lines 321, 979).     *)

Rule(id, order, filetype, pattern, comment, fromTemplate) ==
    [id |-> id, order |-> order, filetype |-> filetype, pattern |-> pattern,
     comment |-> comment, fromTemplate |-> fromTemplate]

\* typemapRules.findIndex((r) => r.id === ruleId), 1-based; 0 when absent
findIndexById(rules, ruleId) ==
    LET hits == {i \in 1..Len(rules) : rules[i].id = ruleId}
    IN  IF hits = {} THEN 0 ELSE SetMin(hits)

\* typemapRules.find((r) => r.order === order), 1-based index; 0 when absent
findIndexByOrder(rules, order) ==
    LET hits == {i \in 1..Len(rules) : rules[i].order = order}
    IN  IF hits = {} THEN 0 ELSE SetMin(hits)

\* The body shared by the three line parsers (lines 208-226, 1664-1677,
\* 1931-1944): split off the inline comment, then filetype and pattern.
\* Returns <<>> when the line has fewer than two tokens.
parseRuleLine(trimmedLine) ==
    LET commentIndex == indexOf(trimmedLine, HashHash)
        workingLine == IF commentIndex >= 0
                       THEN trim(substringTo(trimmedLine, commentIndex))
                       ELSE trimmedLine
        comment == IF commentIndex >= 0
                   THEN trim(substringFrom(trimmedLine, commentIndex + 2))
                   ELSE <<>>
        parts == splitWs(workingLine)
    IN  IF Len(parts) >= 2
        THEN <<[filetype |-> parts[1],
                pattern |-> join(Tail(parts), Space),
                comment |-> comment]>>
        ELSE <<>>

KeyTypeMap == <<"T", "y", "p", "e", "M", "a", "p">>
KeyTypeMapComment == KeyTypeMap \o <<"C", "o", "m", "m", "e", "n", "t">>

DecimalDigits == <<"0", "1", "2", "3", "4", "5", "6", "7", "8", "9">>

\* parseInt(str) for a string without leading blanks or sign: the number its
\* leading decimal digits write; -1 stands for NaN (no leading digit)
RECURSIVE parseIntFrom(_, _, _)
parseIntFrom(str, at, acc) ==
    IF at > Len(str) \/ \A k \in 1..10 : DecimalDigits[k] # str[at]
    THEN (IF at = 1 THEN -1 ELSE acc)
    ELSE parseIntFrom(str, at + 1,
             10 * acc + (CHOOSE k \in 1..10 : DecimalDigits[k] = str[at]) - 1)

parseInt(str) == parseIntFrom(str, 1, 0)

\* An entry the loop over the keys collects: the kind of key, the number
\* after it, the value
Entry(key, index, value) == [key |-> key, index |-> index, value |-> value]

\* One property of the record data[0]: its key and its value
RawEntry(key, value) == [key |-> key, value |-> value]

\* The key and index the loop over the keys of typemapData (lines 184-194)
\* reads from a property: key is "TypeMapComment", "TypeMap", or "other"
\* for a property the loop passes over
readKey(raw) ==
    IF startsWith(raw.key, KeyTypeMapComment)
    THEN Entry("TypeMapComment",
               parseInt(substringFrom(raw.key, Len(KeyTypeMapComment))),
               raw.value)
    ELSE IF startsWith(raw.key, KeyTypeMap)
    THEN Entry("TypeMap",
               parseInt(substringFrom(raw.key, Len(KeyTypeMap))), raw.value)
    ELSE Entry("other", -1, raw.value)

\* The properties of the record in key enumeration order, as read by readKey
readKeys(record) == [i \in 1..Len(record) |-> readKey(record[i])]

\* commentEntries[index].replace(/^##\s*/, "").trim()
stripCommentMarker(c) ==
    trim(IF startsWith(c, HashHash) THEN substringFrom(c, 2) ELSE c)

\* commentEntries[index] of the record typemapData: the value of the last
\* TypeMapComment<index> key, the empty string when there is none
commentEntry(typemapData, index) ==
    LET hits == {i \in 1..Len(typemapData) :
                    /\ typemapData[i].key = "TypeMapComment"
                    /\ typemapData[i].index = index}
    IN  IF hits = {} THEN <<>> ELSE typemapData[SetMax(hits)].value

\* Mutation of sortByIndex: the entries stay in key enumeration order
sortByIndexNone(entries) == entries

\* typemapEntries after typemapEntries.sort((a, b) => a.index - b.index)
RECURSIVE sortByIndex(_)
sortByIndex(entries) ==
    IF Len(entries) = 0 THEN <<>>
    ELSE LET n == Len(entries)
             e == entries[n]
             front == sortByIndex(SubSeq(entries, 1, n - 1))
             k == Cardinality({i \in 1..Len(front) : front[i].index <= e.index})
         IN  SubSeq(front, 1, k) \o <<e>> \o SubSeq(front, k + 1, Len(front))

\* Mutation of parseEntries: the loop ends at the first entry that yields no
\* rule
RECURSIVE parseEntriesAbort(_, _, _, _)
parseEntriesAbort(entries, typemapData, rules, firstId) ==
    IF Len(entries) = 0 THEN rules
    ELSE LET entry == Head(entries)
             trimmedLine == trim(entry.value)
             parsed == parseRuleLine(trimmedLine)
         IN  IF trimmedLine = <<>> \/ startsWith(trimmedLine, HashHash)
                \/ Len(parsed) = 0
             THEN rules
             ELSE parseEntriesAbort(Tail(entries), typemapData,
                      Append(rules,
                             Rule(firstId + Len(rules), Len(rules) + 1,
                                  parsed[1].filetype, parsed[1].pattern,
                                  parsed[1].comment, FALSE)),
                      firstId)

\* The loop of parseTypemapData over the sorted entries; rules is the array
\* built so far, so that order++ is Len(rules) + 1
RECURSIVE parseEntries(_, _, _, _)
parseEntries(entries, typemapData, rules, firstId) ==
    IF Len(entries) = 0 THEN rules
    ELSE LET entry == Head(entries)
             trimmedLine == trim(entry.value)
             parsed == parseRuleLine(trimmedLine)
             sidecar == commentEntry(typemapData, entry.index)
             comment == IF Len(parsed) = 1 /\ parsed[1].comment = <<>>
                           /\ sidecar # <<>>
                        THEN stripCommentMarker(sidecar)
                        ELSE IF Len(parsed) = 1 THEN parsed[1].comment ELSE <<>>
             next == IF trimmedLine = <<>> \/ startsWith(trimmedLine, HashHash)
                        \/ Len(parsed) = 0
                     THEN rules
                     ELSE Append(rules,
                             Rule(firstId + Len(rules), Len(rules) + 1,
                                  parsed[1].filetype, parsed[1].pattern,
                                  comment, FALSE))
         IN  parseEntries(Tail(entries), typemapData, next, firstId)

\* parseTypemapData (record form).  data is the array result.data; data[1]
\* is the record, a sequence of [key, value] in key enumeration order.  The
\* empty array also stands for a missing data.
parseTypemapData(data, firstId) ==
    IF Len(data) > 0
    THEN LET typemapData == readKeys(data[1])
             typemapEntries ==
                 SelectSeq(typemapData, LAMBDA e : e.key = "TypeMap")
         IN  parseEntries(sortByIndex(typemapEntries), typemapData, <<>>, firstId)
    ELSE <<>>

\* typemapRules.forEach((rule, index) => { rule.order = index + 1; })
renumber(rules) ==
    [i \in 1..Len(rules) |-> [rules[i] EXCEPT !.order = i]]

\* Mutation of reorderRules: the array is sorted and not renumbered
reorderRulesSortOnly(rules) == sortByOrder(rules)

\* Mutation of reorderRules: the array is renumbered and not sorted
reorderRulesNoSort(rules) == renumber(rules)

\* reorderRules: sort by order, then renumber 1..N
reorderRules(rules) == renumber(sortByOrder(rules))

-----------------------------------------------------------------------------
(* Template parsing and merging *)

\* Mutation of parseTemplateLines: lines before the "TypeMap:" line are
\* parsed like the lines after it
RECURSIVE parseTemplateLinesAnywhere(_, _, _)
parseTemplateLinesAnywhere(lines, inTypeMapSection, rules) ==
    IF Len(lines) = 0 THEN rules
    ELSE LET trimmedLine == trim(Head(lines))
             rest == Tail(lines)
         IN  IF \/ trimmedLine = <<>>
                \/ startsWith(trimmedLine, <<"#">>)
                \/ trimmedLine = TypeMapMarker
             THEN parseTemplateLinesAnywhere(rest, inTypeMapSection, rules)
             ELSE parseTemplateLinesAnywhere(rest, inTypeMapSection,
                      rules \o parseRuleLine(trimmedLine))

\* The loop of parseTemplateContent over the lines of the template text
RECURSIVE parseTemplateLines(_, _, _)
parseTemplateLines(lines, inTypeMapSection, rules) ==
    IF Len(lines) = 0 THEN rules
    ELSE LET trimmedLine == trim(Head(lines))
             rest == Tail(lines)
         IN  IF trimmedLine = <<>> \/ startsWith(trimmedLine, <<"#">>)
             THEN parseTemplateLines(rest, inTypeMapSection, rules)
             ELSE IF trimmedLine = TypeMapMarker
             THEN parseTemplateLines(rest, TRUE, rules)
             ELSE IF ~inTypeMapSection
             THEN parseTemplateLines(rest, inTypeMapSection, rules)
             ELSE IF startsWith(trimmedLine, HashHash)
             THEN parseTemplateLines(rest, inTypeMapSection, rules)
             ELSE parseTemplateLines(rest, inTypeMapSection,
                                     rules \o parseRuleLine(trimmedLine))

parseTemplateContent(content) ==
    parseTemplateLines(splitLines(content), FALSE, <<>>)

\* Mutation of findExistingRule: the last rule with this pattern
findExistingRuleLast(rules, pattern) ==
    LET hits == {i \in 1..Len(rules) : rules[i].pattern = pattern}
    IN  IF hits = {} THEN 0 ELSE SetMax(hits)

\* findExistingRule: 1-based index of the first rule of the array with this
\* pattern; 0 when there is none
findExistingRule(rules, pattern) ==
    LET hits == {i \in 1..Len(rules) : rules[i].pattern = pattern}
    IN  IF hits = {} THEN 0 ELSE SetMin(hits)

EmptyReport == [added |-> <<>>, skipped |-> <<>>, conflicts |-> <<>>]

\* The rule mergeTemplateRules pushes for templateRule (lines 1702-1710 and
\* 1722-1730)
templateRuleToRule(templateRule, id, order) ==
    Rule(id, order, templateRule.filetype, templateRule.pattern,
         templateRule.comment, TRUE)

\* Mutation of mergeOne: a rule whose pattern exists is never pushed, and
\* is reported as a conflict when the filetypes differ
mergeOneNoConflictPush(acc, templateRule) ==
    LET existing == findExistingRule(acc.rules, templateRule.pattern)
    IN  IF existing = 0
        THEN [rules |-> Append(acc.rules,
                            templateRuleToRule(templateRule, acc.nid,
                                               Len(acc.rules) + 1)),
              result |-> [acc.result EXCEPT
                             !.added = Append(@, templateRule)],
              nid |-> acc.nid + 1]
        ELSE IF acc.rules[existing].filetype = templateRule.filetype
        THEN [acc EXCEPT !.result.skipped = Append(@,
                 [filetype |-> templateRule.filetype,
                  pattern |-> templateRule.pattern,
                  comment |-> templateRule.comment,
                  reason |-> "Same filetype already exists"])]
        ELSE [acc EXCEPT !.result.conflicts = Append(@,
                 [filetype |-> templateRule.filetype,
                  pattern |-> templateRule.pattern,
                  comment |-> templateRule.comment,
                  existingFiletype |-> acc.rules[existing].filetype,
                  newFiletype |-> templateRule.filetype])]

\* One iteration of the loop of mergeTemplateRules.  acc is
\* [rules, result, nid]: the array, the report and the next fresh id.
mergeOne(acc, templateRule) ==
    LET existing == findExistingRule(acc.rules, templateRule.pattern)
        pushed == Append(acc.rules,
                         templateRuleToRule(templateRule, acc.nid,
                                            Len(acc.rules) + 1))
    IN  IF existing = 0
        THEN [rules |-> pushed,
              result |-> [acc.result EXCEPT
                             !.added = Append(@, templateRule)],
              nid |-> acc.nid + 1]
        ELSE IF acc.rules[existing].filetype = templateRule.filetype
        THEN [rules |-> acc.rules,
              result |-> [acc.result EXCEPT
                             !.skipped = Append(@,
                                 [filetype |-> templateRule.filetype,
                                  pattern |-> templateRule.pattern,
                                  comment |-> templateRule.comment,
                                  reason |->
                                      "Same filetype already exists"])],
              nid |-> acc.nid]
        ELSE [rules |-> pushed,
              result |-> [acc.result EXCEPT
                             !.conflicts = Append(@,
                                 [filetype |-> templateRule.filetype,
                                  pattern |-> templateRule.pattern,
                                  comment |-> templateRule.comment,
                                  existingFiletype |->
                                      acc.rules[existing].filetype,
                                  newFiletype |-> templateRule.filetype])],
              nid |-> acc.nid + 1]

RECURSIVE mergeLoop(_, _)
mergeLoop(acc, templateRules) ==
    IF Len(templateRules) = 0 THEN acc
    ELSE mergeLoop(mergeOne(acc, Head(templateRules)), Tail(templateRules))

\* mergeTemplateRules: the array after the merge, the report, the next id
mergeTemplateRules(rules, templateRules, firstId) ==
    LET acc == mergeLoop([rules |-> rules, result |-> EmptyReport,
                          nid |-> firstId], templateRules)
    IN  [rules |-> reorderRules(acc.rules), result |-> acc.result,
         nid |-> acc.nid]

-----------------------------------------------------------------------------
(* Conflict detection *)

\* extractExtension: pattern.match(/\.([a-zA-Z0-9]+)$/).  The match is the
\* last "." of the pattern when one or more alphanumerics, and nothing
\* else, follow it.  <<>> stands for null (a match is never empty).
extractExtension(pattern) ==
    LET dots == {i \in 1..Len(pattern) : pattern[i] = "."}
    IN  IF dots = {} THEN <<>>
        ELSE LET d == SetMax(dots)
                 ext == SubSeq(pattern, d + 1, Len(pattern))
             IN  IF Len(ext) >= 1 /\ \A i \in 1..Len(ext) : ext[i] \in Alnum
                 THEN ext ELSE <<>>

\* pattern.replace(/\.\.\.\./g, "").replace(/\.\.\./g, "")
stripWildcards(pattern) ==
    replaceAll(replaceAll(pattern, FourDots, <<>>), DotDotDot, <<>>)

\* Mutation of checkPatternOverlap: only path1.includes(path2) is tested
checkPatternOverlapOneWay(pattern1, pattern2) ==
    LET ext1 == extractExtension(pattern1)
        ext2 == extractExtension(pattern2)
        path1 == stripWildcards(pattern1)
        path2 == stripWildcards(pattern2)
    IN  IF pattern1 = pattern2 THEN "exact"
        ELSE IF /\ ext1 # <<>> /\ ext2 # <<>> /\ ext1 = ext2
                /\ includes(path1, path2)
        THEN "specificity"
        ELSE IF /\ (pattern1 = BroadWildcard \/ pattern2 = BroadWildcard)
                /\ pattern1 # pattern2
        THEN "broad_wildcard"
        ELSE "none"

\* checkPatternOverlap: the overlap type, "none" for null
checkPatternOverlap(pattern1, pattern2) ==
    LET ext1 == extractExtension(pattern1)
        ext2 == extractExtension(pattern2)
        path1 == stripWildcards(pattern1)
        path2 == stripWildcards(pattern2)
    IN  IF pattern1 = pattern2 THEN "exact"
        ELSE IF /\ ext1 # <<>> /\ ext2 # <<>> /\ ext1 = ext2
                /\ (includes(path1, path2) \/ includes(path2, path1))
        THEN "specificity"
        ELSE IF /\ (pattern1 = BroadWildcard \/ pattern2 = BroadWildcard)
                /\ pattern1 # pattern2
        THEN "broad_wildcard"
        ELSE "none"

\* The set of order values of the array
Orders(rules) == {rules[i].order : i \in 1..Len(rules)}

\* The indexes of the array that the loop of checkRuleConflicts visits for
\* the rule at index ruleIndex
laterIndexes(rules, ruleIndex) == (ruleIndex + 1)..Len(rules)

\* checkRuleConflicts(rule) for the rule at array index ruleIndex: one
\* description per overlapping rule visited, in the order visited.
\* [kind, order, filetype] stands for the text
\*   "Overridden by rule <order> (<filetype>)" / "Duplicated by rule <order>".
RECURSIVE conflictsOver(_, _, _)
conflictsOver(rules, ruleIndex, idxs) ==
    IF idxs = {} THEN <<>>
    ELSE LET i == SetMin(idxs)
             laterRule == rules[i]
             rule == rules[ruleIndex]
             overlap == checkPatternOverlap(rule.pattern, laterRule.pattern)
             here == IF overlap = "none" THEN <<>>
                     ELSE IF rule.filetype # laterRule.filetype
                     THEN <<[kind |-> "Overridden", order |-> laterRule.order,
                             filetype |-> laterRule.filetype]>>
                     ELSE <<[kind |-> "Duplicated", order |-> laterRule.order,
                             filetype |-> laterRule.filetype]>>
         IN  here \o conflictsOver(rules, ruleIndex, idxs \ {i})

checkRuleConflicts(rules, ruleIndex) ==
    conflictsOver(rules, ruleIndex, laterIndexes(rules, ruleIndex))

-----------------------------------------------------------------------------
(* Serialization *)

\* One line of generateTypemapText (lines 978-981)
ruleLine(rule) ==
    Indent \o rule.filetype \o Space \o rule.pattern
    \o (IF trim(rule.comment) # <<>>
        THEN Space \o HashHash \o Space \o trim(rule.comment)
        ELSE <<>>)

RECURSIVE ruleLines(_)
ruleLines(rules) ==
    IF Len(rules) = 0 THEN <<>>
    ELSE <<ruleLine(Head(rules))>> \o ruleLines(Tail(rules))

\* Mutation of generateTypemapText: the lines are in array order
generateTypemapTextUnsorted(rules) == join(ruleLines(rules), <<"\n">>)

generateTypemapText(rules) == join(ruleLines(sortByOrder(rules)), <<"\n">>)

\* const formData = `# A Perforce Typemap Specification.\n#\nTypeMap:\n...`
FormHeader ==
    <<"#"," ","A"," ","P","e","r","f","o","r","c","e"," ","T","y","p","e",
      "m","a","p"," ","S","p","e","c","i","f","i","c","a","t","i","o","n",
      ".","\n","#","\n">> \o TypeMapMarker \o <<"\n">>

formData(rules) == FormHeader \o generateTypemapText(rules)

-----------------------------------------------------------------------------
(* Inputs: what the server returns, what a template file holds *)

\* p4 typemap -o results (result.data), record form
DataTxtSpecial ==
    <<<<RawEntry(KeyTypeMap \o <<"1", "0">>,
                 FtBinary \o Space \o PatSpecialTxt),
        RawEntry(KeyTypeMap \o <<"5">>, FtText),
        RawEntry(KeyTypeMap \o <<"2">>, FtText \o Space \o PatTxt)>>>>

DataPsd ==
    <<<<RawEntry(<<"c", "o", "d", "e">>, <<"s", "t", "a", "t">>),
        RawEntry(KeyTypeMap \o <<"3">>,
                 Space \o FtBinary \o Space \o PatPsd \o Space),
        RawEntry(KeyTypeMapComment \o <<"3">>, HashHash \o Space \o CmtDocs),
        RawEntry(KeyTypeMap \o <<"0">>, HashHash \o Space \o CmtDocs),
        RawEntry(KeyTypeMap \o <<"1">>, FtText),
        RawEntry(KeyTypeMap \o <<"2">>, Space \o Space)>>>>

ServerData == {DataTxtSpecial, DataPsd, <<>>}

\* Template file contents
TemplateTextNew ==
    join(<<<<"#", " ", "t">>,
           FtBinary \o Space \o PatPsd,
           TypeMapMarker,
           Indent \o FtText \o Space \o PatNew,
           Indent \o FtBinary \o Space \o PatNew,
           Indent \o FtText \o Space \o PatNew>>, <<"\n">>)

TemplateTextTxtPsd ==
    join(<<TypeMapMarker,
           Indent \o FtText \o Space \o PatTxt \o Space \o HashHash
               \o Space \o CmtDocs,
           <<>>,
           Indent \o FtBinary \o Space \o PatPsd>>, <<"\n">>)

TemplateContents == {TemplateTextNew, TemplateTextTxtPsd}

\* parseTypemapData of every modelled server answer, for every first id
ParsedServerData ==
    [data \in ServerData, firstId \in 1..(MaxId + 1) |->
        parseTypemapData(data, firstId)]

\* parseTemplateContent of every modelled template file
ParsedTemplates ==
    [content \in TemplateContents |-> parseTemplateContent(content)]

NoTestResult ==
    [matched |-> FALSE, filetype |-> <<>>, order |-> 0, path |-> <<>>]

RuleIds(rules) == {rules[i].id : i \in 1..Len(rules)}

-----------------------------------------------------------------------------
(* The editor (lines 1..1801) *)

\* Mutation of markAsChanged: the flag is left as it is
markAsChangedKeeps(flag) == flag

\* markAsChanged: the new value of hasUnsavedChanges
markAsChanged(flag) == TRUE

\* Mutation of markAsSaved: the flag is left as it is
markAsSavedKeeps(flag) == flag

\* markAsSaved: the new value of hasUnsavedChanges
markAsSaved(flag) == FALSE

\* updateSaveButtonState: button.disabled of the Save buttons, set by
\* markAsChanged and markAsSaved right after the flag
saveButtonDisabled(flag) == ~flag

\* Mutation of saveFailure: markAsSaved runs before the error is seen
saveFailureMarksSaved(flag) == FALSE

\* The flag after saveTypemap has caught an error (lines 964-967): the
\* catch reports it and touches nothing else
saveFailure(flag) == flag

\* The two ways loadUrlWithFallback has of loading a URL, and a transport
\* or a call that has not come to anything yet
Transports == {"xhr", "fetch"}
NoOutcome == [state |-> "none", value |-> <<>>]

\* No call of checkPatternOverlap has been made
NoOverlapCheck ==
    [called |-> FALSE, pattern1 |-> <<>>, pattern2 |-> <<>>,
     result |-> "none"]

\* No call of loadUrlWithFallback has been made
NoUrlLoad ==
    [pc |-> "idle", url |-> "", isFileOrigin |-> FALSE,
     p4vjsDefined |-> FALSE, attempts |-> <<>>,
     outcomes |-> [t \in Transports |-> NoOutcome], settled |-> NoOutcome]

Init ==
    /\ typemapRules = <<>>
    /\ hasUnsavedChanges = FALSE
    /\ nextId = 1
    /\ lastOp = "init"
    /\ mergeTpl = <<>>
    /\ mergeResult = EmptyReport
    /\ sentText = <<>>
    /\ savePending = FALSE
    /\ testResult = NoTestResult
    /\ loadedData = <<>>
    /\ templateContent = <<>>
    /\ urlLoad = NoUrlLoad
    /\ overlapCheck = NoOverlapCheck

\* What a handler that is not a merge leaves of the last merge; the
\* handlers of the editor leave the records of the two calls alone
NoMerge ==
    /\ mergeTpl' = <<>>
    /\ mergeResult' = EmptyReport
    /\ templateContent' = <<>>
    /\ UNCHANGED <<urlLoad, overlapCheck>>

\* What a handler that is not a load, a merge, a save or a path test leaves
\* behind
Plain(op) ==
    /\ lastOp' = op
    /\ NoMerge
    /\ loadedData' = <<>>
    /\ UNCHANGED <<sentText, savePending, testResult>>

\* loadTypemap, from the point where p4vjs.p4(["typemap", "-o"]) has
\* answered: an error result throws before anything is assigned
loadTypemap ==
    \E failed \in BOOLEAN, data \in ServerData :
        LET parsed == ParsedServerData[data, nextId]
        IN  IF failed
            THEN /\ Plain("loadTypemapFailed")
                 /\ UNCHANGED <<typemapRules, hasUnsavedChanges, nextId>>
            ELSE /\ Len(parsed) <= MaxRules
                 /\ nextId + Len(parsed) - 1 <= MaxId
                 /\ typemapRules' = parsed
                 /\ nextId' = nextId + Len(parsed)
                 /\ hasUnsavedChanges' = markAsSaved(hasUnsavedChanges)
                 /\ lastOp' = "loadTypemap"
                 /\ loadedData' = data
                 /\ NoMerge
                 /\ UNCHANGED <<sentText, savePending, testResult>>

addNewRule ==
    /\ Len(typemapRules) < MaxRules
    /\ nextId <= MaxId
    /\ typemapRules' = Append(typemapRules,
           Rule(nextId, Len(typemapRules) + 1, FtBinary, PatNew, <<>>, FALSE))
    /\ nextId' = nextId + 1
    /\ hasUnsavedChanges' = markAsChanged(hasUnsavedChanges)
    /\ Plain("addNewRule")

\* deleteRule: confirmed is the answer to confirm(...)
deleteRule ==
    \E ruleId \in RuleIds(typemapRules), confirmed \in BOOLEAN :
        IF confirmed
        THEN /\ typemapRules' = reorderRules(
                    SelectSeq(typemapRules, LAMBDA r : r.id # ruleId))
             /\ hasUnsavedChanges' = markAsChanged(hasUnsavedChanges)
             /\ UNCHANGED nextId
             /\ Plain("deleteRule")
        ELSE /\ UNCHANGED <<typemapRules, hasUnsavedChanges, nextId>>
             /\ Plain("deleteRuleCancelled")

\* Mutation of swapOrders: the second assignment is missing
swapOrdersOneWay(rules, i, j) == [rules EXCEPT ![i].order = rules[j].order]

\* The array after the order values of the rules at indexes i and j have
\* been exchanged
swapOrders(rules, i, j) ==
    [rules EXCEPT ![i].order = rules[j].order, ![j].order = rules[i].order]

\* Mutation of moveRuleDownRules: the rule is exchanged with the rule in
\* the next array slot
moveRuleDownRulesBySlot(rules, ruleId) ==
    LET cur == findIndexById(rules, ruleId)
    IN  IF cur = 0 \/ cur = Len(rules) THEN rules
        ELSE swapOrders(rules, cur, cur + 1)

\* moveRuleUp(ruleId) on the array: the new array, unchanged when there is
\* no rule of the next lower order
moveRuleUpRules(rules, ruleId) ==
    LET cur == findIndexById(rules, ruleId)
        prev == IF cur = 0 THEN 0
                ELSE findIndexByOrder(rules, rules[cur].order - 1)
    IN  IF cur = 0 \/ prev = 0 THEN rules ELSE swapOrders(rules, cur, prev)

moveRuleDownRules(rules, ruleId) ==
    LET cur == findIndexById(rules, ruleId)
        nxt == IF cur = 0 THEN 0
               ELSE findIndexByOrder(rules, rules[cur].order + 1)
    IN  IF cur = 0 \/ nxt = 0 THEN rules ELSE swapOrders(rules, cur, nxt)

moveRuleUp ==
    \E ruleId \in RuleIds(typemapRules) :
        LET moved == moveRuleUpRules(typemapRules, ruleId)
        IN  /\ typemapRules' = moved
            /\ hasUnsavedChanges' =
                   IF moved # typemapRules
                   THEN markAsChanged(hasUnsavedChanges)
                   ELSE hasUnsavedChanges
            /\ UNCHANGED nextId
            /\ Plain("moveRuleUp")

moveRuleDown ==
    \E ruleId \in RuleIds(typemapRules) :
        LET moved == moveRuleDownRules(typemapRules, ruleId)
        IN  /\ typemapRules' = moved
            /\ hasUnsavedChanges' =
                   IF moved # typemapRules
                   THEN markAsChanged(hasUnsavedChanges)
                   ELSE hasUnsavedChanges
            /\ UNCHANGED nextId
            /\ Plain("moveRuleDown")

\* Mutation of templateFailure: the rules of the template are merged
\* before the failure is reported
templateFailureMerged(rules, content, firstId) ==
    mergeTemplateRules(rules, ParsedTemplates[content], firstId).rules

\* The rules after loadSelectedTemplate has caught the rejection of
\* loadTemplateFile (lines 1283-1286): the statements after the await are
\* skipped
templateFailure(rules, content, firstId) == rules

\* loadSelectedTemplate, from the point where loadTemplateFile has settled:
\* rejected, the catch reports the error; resolved with the template text,
\* parse, merge, markAsChanged
loadSelectedTemplate ==
    \E rejected \in BOOLEAN, content \in TemplateContents :
        LET templateRules == ParsedTemplates[content]
            merged == mergeTemplateRules(typemapRules, templateRules, nextId)
        IN  IF rejected
            THEN /\ typemapRules' =
                        templateFailure(typemapRules, content, nextId)
                 /\ Len(typemapRules') <= MaxRules
                 /\ Plain("loadSelectedTemplateFailed")
                 /\ UNCHANGED <<hasUnsavedChanges, nextId>>
            ELSE /\ Len(merged.rules) <= MaxRules
                 /\ merged.nid - 1 <= MaxId
                 /\ typemapRules' = merged.rules
                 /\ nextId' = merged.nid
                 /\ hasUnsavedChanges' = markAsChanged(hasUnsavedChanges)
                 /\ lastOp' = "loadSelectedTemplate"
                 /\ mergeTpl' = templateRules
                 /\ mergeResult' = merged.result
                 /\ templateContent' = content
                 /\ loadedData' = <<>>
                 /\ UNCHANGED <<sentText, savePending, testResult, urlLoad,
                                overlapCheck>>

Next ==
    \/ loadTypemap
    \/ addNewRule
    \/ deleteRule
    \/ moveRuleUp
    \/ moveRuleDown
    \/ loadSelectedTemplate

Spec == Init /\ [][Next]_vars

-----------------------------------------------------------------------------
(* The editor: editing rules and saving *)

PatHash == <<"/","/","a","#","#","b">>
CmtPadded == <<" ","d","o","c","s">>
FtTextW == <<"t","e","x","t","+","w">>

\* What the user types into the pattern and comment inputs of a row
EditPatterns == {<<>>, PatHash}
EditComments == {CmtPadded}

\* What the file type editor holds when Apply is pressed: the type built
\* from the base type and the modifiers, and the trimmed depot path input
EditTypes == {FtTextW}
EditorPatterns == {<<>>, PatHash}

\* rule.pattern = newPattern on the rule with this id
setPattern(rules, ruleId, newPattern) ==
    LET i == findIndexById(rules, ruleId)
    IN  IF i = 0 THEN rules ELSE [rules EXCEPT ![i].pattern = newPattern]

updateRulePattern ==
    \E ruleId \in RuleIds(typemapRules), newPattern \in EditPatterns :
        /\ typemapRules' = setPattern(typemapRules, ruleId, newPattern)
        /\ hasUnsavedChanges' = markAsChanged(hasUnsavedChanges)
        /\ UNCHANGED nextId
        /\ Plain("updateRulePattern")

updateRuleComment ==
    \E ruleId \in RuleIds(typemapRules), newComment \in EditComments :
        LET i == findIndexById(typemapRules, ruleId)
        IN  /\ typemapRules' = [typemapRules EXCEPT ![i].comment = newComment]
            /\ hasUnsavedChanges' = markAsChanged(hasUnsavedChanges)
            /\ UNCHANGED nextId
            /\ Plain("updateRuleComment")

\* applyFileTypeEdit on the rule whose editor is open (editingRow)
applyFileTypeEdit ==
    \E editingRow \in RuleIds(typemapRules), fullType \in EditTypes,
       newPattern \in EditorPatterns :
        LET i == findIndexById(typemapRules, editingRow)
        IN  /\ typemapRules' =
                   [typemapRules EXCEPT
                       ![i].filetype = fullType,
                       ![i].pattern = IF newPattern # <<>> THEN newPattern
                                      ELSE @]
            /\ hasUnsavedChanges' = markAsChanged(hasUnsavedChanges)
            /\ UNCHANGED nextId
            /\ Plain("applyFileTypeEdit")

\* saveTypemap up to its await: the form data is built and handed to
\* p4vjs.p4(["typemap", "-i"], formData).  One request is in flight at a time.
saveTypemapSend ==
    /\ ~savePending
    /\ sentText' = formData(typemapRules)
    /\ savePending' = TRUE
    /\ lastOp' = "saveTypemapSend"
    /\ NoMerge
    /\ loadedData' = <<>>
    /\ UNCHANGED <<typemapRules, hasUnsavedChanges, nextId, testResult>>

\* saveTypemap after its await: an error result is caught and reported, a
\* good one runs markAsSaved
saveTypemapDone ==
    /\ savePending
    /\ \E failed \in BOOLEAN :
        /\ hasUnsavedChanges' = IF failed THEN saveFailure(hasUnsavedChanges)
                              ELSE markAsSaved(hasUnsavedChanges)
        /\ lastOp' = IF failed THEN "saveTypemapFailed" ELSE "saveTypemapDone"
    /\ savePending' = FALSE
    /\ sentText' = <<>>
    /\ NoMerge
    /\ loadedData' = <<>>
    /\ UNCHANGED <<typemapRules, nextId, testResult>>

NextEdit ==
    \/ loadTypemap
    \/ moveRuleUp
    \/ updateRulePattern
    \/ updateRuleComment
    \/ applyFileTypeEdit
    \/ saveTypemapSend
    \/ saveTypemapDone

SpecEdit == Init /\ [][NextEdit]_vars

\* The longest list whose rows are edited and which is saved in a session
\* that also adds, deletes, moves and merges
MaxEditLen == 1

\* A whole session of the editor: every handler that changes the list or
\* the flag
NextSession ==
    \/ loadTypemap
    \/ addNewRule
    \/ deleteRule
    \/ moveRuleUp
    \/ moveRuleDown
    \/ loadSelectedTemplate
    \/ Len(typemapRules) <= MaxEditLen /\ updateRulePattern
    \/ Len(typemapRules) <= MaxEditLen /\ updateRuleComment
    \/ Len(typemapRules) <= MaxEditLen /\ applyFileTypeEdit
    \/ Len(typemapRules) <= MaxEditLen /\ saveTypemapSend
    \/ saveTypemapDone

SpecSession == Init /\ [][NextSession]_vars

-----------------------------------------------------------------------------
(* The earlier editor (lines 1803..2693) *)

\* The loop of the text-form parseTypemapData over the lines of
\* data[0].TypeMap
RECURSIVE legacy_parseLines(_, _, _)
legacy_parseLines(lines, rules, firstId) ==
    IF Len(lines) = 0 THEN rules
    ELSE LET trimmedLine == trim(Head(lines))
             parsed == parseRuleLine(trimmedLine)
             next == IF trimmedLine = <<>> \/ startsWith(trimmedLine, HashHash)
                        \/ Len(parsed) = 0
                     THEN rules
                     ELSE Append(rules,
                             Rule(firstId + Len(rules), Len(rules) + 1,
                                  parsed[1].filetype, parsed[1].pattern,
                                  parsed[1].comment, FALSE))
         IN  legacy_parseLines(Tail(lines), next, firstId)

\* parseTypemapData (text form).  typeMap is data[0].TypeMap; the empty
\* string also stands for a missing answer or a missing TypeMap field.
legacy_parseTypemapData(typeMap, firstId) ==
    IF typeMap # <<>>
    THEN legacy_parseLines(splitLines(typeMap), <<>>, firstId)
    ELSE <<>>

\* The chain of replacements of pathMatchesPattern (lines 2423-2432): each
\* one runs over the output of the one before it
translatePattern(pattern) ==
    LET r1 == replaceAll(pattern, FourDots, <<".", "*">>)
        r2 == replaceAll(r1, DotDotDot, <<"[", "^", "/", "]", "*">>)
        r3 == replaceAll(r2, <<"*">>, <<"[", "^", "/", "]", "*">>)
        r4 == replaceAll(r3, <<"?">>, <<".">>)
        r5 == replaceAll(r4, <<"+">>, <<"\\", "+">>)
        r6 == replaceAll(r5, <<"(">>, <<"\\", "(">>)
        r7 == replaceAll(r6, <<")">>, <<"\\", ")">>)
        r8 == replaceAll(r7, <<"[">>, <<"\\", "[">>)
    IN  replaceAll(r8, <<"]">>, <<"\\", "]">>)

\* "^" + regexPattern + ",i": the flag is part of the source text
regexSource(pattern) == <<"^">> \o translatePattern(pattern) \o <<",", "i">>

digitValue(ch) == (CHOOSE k \in 1..10 : DecimalDigits[k] = ch) - 1

\* Whether the braced quantifier {d}, d one digit, stands at position at
isBraced(source, at) ==
    /\ Len(source) >= at + 2
    /\ source[at] = "{"
    /\ \E k \in 1..10 : DecimalDigits[k] = source[at + 1]
    /\ source[at + 2] = "}"

\* new RegExp(source) for the sources the chain can produce from patterns
\* without "\", "|", "$" and braces other than {d}: the sequence of terms of
\* the regular expression.  A term is [kind, c, star]: kind "lit" (the
\* character c), "any" (.), "bol" (^) or "invalid" (a quantifier with
\* nothing to repeat, for which new RegExp throws); star says that "*"
\* follows the term.  A term followed by {d} stands d times.
RECURSIVE compileRegex(_)
compileRegex(source) ==
    IF Len(source) = 0 THEN <<>>
    ELSE IF isBraced(source, 1)
    THEN <<[kind |-> "invalid", c |-> "{", star |-> FALSE]>>
         \o compileRegex(SubSeq(source, 4, Len(source)))
    ELSE LET escaped == source[1] = "\\" /\ Len(source) >= 2
             used == IF escaped THEN 2 ELSE 1
             kind == IF escaped THEN "lit"
                     ELSE IF source[1] = "." THEN "any"
                     ELSE IF source[1] = "^" THEN "bol"
                     ELSE IF source[1] = "*" THEN "invalid"
                     ELSE "lit"
             c == IF escaped THEN source[2] ELSE source[1]
             star == Len(source) > used /\ source[used + 1] = "*"
             braced == isBraced(source, used + 1)
             rest == SubSeq(source,
                            used + (IF star THEN 2 ELSE IF braced THEN 4 ELSE 1),
                            Len(source))
             term == [kind |-> IF (star \/ braced) /\ kind = "bol"
                               THEN "invalid" ELSE kind,
                      c |-> c, star |-> star]
         IN  (IF braced /\ term.kind # "invalid"
              THEN [k \in 1..digitValue(source[used + 2]) |-> term]
              ELSE <<term>>) \o compileRegex(rest)

\* Whether the character ch is matched by the term
termMatches(term, ch) ==
    \/ term.kind = "lit" /\ ch = term.c
    \/ term.kind = "any" /\ ch \notin {"\n", "\r"}

\* Whether the terms match path from position pos on (1-based); the match
\* may end anywhere
RECURSIVE matchFrom(_, _, _)
matchFrom(terms, path, pos) ==
    IF Len(terms) = 0 THEN TRUE
    ELSE LET term == Head(terms)
         IN  IF term.kind = "bol"
             THEN pos = 1 /\ matchFrom(Tail(terms), path, pos)
             ELSE IF term.star
             THEN \E n \in 0..(Len(path) - pos + 1) :
                      /\ \A k \in pos..(pos + n - 1) : termMatches(term, path[k])
                      /\ matchFrom(Tail(terms), path, pos + n)
             ELSE /\ pos <= Len(path)
                  /\ termMatches(term, path[pos])
                  /\ matchFrom(Tail(terms), path, pos + 1)

\* The body of the try block of pathMatchesPattern (lines 2435-2436): new
\* RegExp(...) and regex.test(path).  "true" or "false" is what test
\* returns, "throws" says that new RegExp threw.  The source starts with
\* "^", so a match starts at the first character.
regexTest(path, pattern) ==
    LET terms == compileRegex(regexSource(pattern))
    IN  IF \E k \in 1..Len(terms) : terms[k].kind = "invalid" THEN "throws"
        ELSE IF matchFrom(terms, path, 1) THEN "true"
        ELSE "false"

\* Mutation of pathMatchesPattern: no try ... catch around the body
pathMatchesPatternNoCatch(path, pattern) == regexTest(path, pattern)

\* pathMatchesPattern: how the call completes, "true" or "false" for the
\* value returned ("throws" would be an exception leaving the function);
\* the catch block returns false
pathMatchesPattern(path, pattern) ==
    IF regexTest(path, pattern) = "throws" THEN "false"
    ELSE regexTest(path, pattern)

PatA == <<"/", "/", "a">>
PatAny == <<"/", "/", "?">>
PathA == <<"/", "/", "a", ",", "i">>
PatDepot == <<"/", "/", "d", "e", "p", "o", "t", "/", ".", ".", ".">>
PatBraced == <<"/", "/", ".", ".", ".", "{", "1", "}">>
PathFooTxt ==
    <<"/", "/", "d", "e", "p", "o", "t", "/", "f", "o", "o", ".", "t", "x", "t">>
PathFooBin ==
    <<"/", "/", "d", "e", "p", "o", "t", "/", "f", "o", "o", ".", "b", "i", "n">>
PathABC ==
    <<"/", "/", "d", "e", "p", "o", "t", "/", "a", "/", "b", "/", "c">>

\* data[0].TypeMap of the p4 typemap -o results
LegacyTypeMaps ==
    {join(<<FtBinary \o Space \o PatBraced, FtText \o Space \o PatA,
            FtBinary \o Space \o PatAny>>, <<"\n">>),
     join(<<FtText \o Space \o PatTxt, FtBinary \o Space \o PatDepot>>,
          <<"\n">>),
     <<>>}

\* What the user types into the test path input
TestPaths == {PathA, PathFooTxt, PathFooBin, PathABC, Space}

\* The patterns a rule of the earlier editor can have in this model, and
\* the paths tested
LegacyPatterns == {PatA, PatAny, PatTxt, PatDepot, PatBraced, PatNew}
LegacyPaths == {trim(typed) : typed \in TestPaths}

\* regexTest and pathMatchesPattern of every modelled path and pattern
RegexTests ==
    [path \in LegacyPaths, pattern \in LegacyPatterns |->
        regexTest(path, pattern)]

PathMatches ==
    [path \in LegacyPaths, pattern \in LegacyPatterns |->
        pathMatchesPattern(path, pattern)]

\* The rule testPath leaves in matchingRule: 1-based index of the last rule
\* of the array whose pattern matches; 0 for null
matchingRule(rules, path) ==
    LET hits == {i \in 1..Len(rules) :
                    PathMatches[path, rules[i].pattern] = "true"}
    IN  IF hits = {} THEN 0 ELSE SetMax(hits)

\* Whether an exception leaves the loop of testPath (lines 2405-2409)
testPathThrows(rules, path) ==
    \E i \in 1..Len(rules) : PathMatches[path, rules[i].pattern] = "throws"

legacy_ParsedTypeMaps ==
    [typeMap \in LegacyTypeMaps, firstId \in 1..(MaxId + 1) |->
        legacy_parseTypemapData(typeMap, firstId)]

legacy_loadTypemap ==
    \E failed \in BOOLEAN, typeMap \in LegacyTypeMaps :
        LET parsed == legacy_ParsedTypeMaps[typeMap, nextId]
        IN  IF failed
            THEN /\ Plain("loadTypemapFailed")
                 /\ UNCHANGED <<typemapRules, hasUnsavedChanges, nextId>>
            ELSE /\ Len(parsed) <= MaxRules
                 /\ nextId + Len(parsed) - 1 <= MaxId
                 /\ typemapRules' = parsed
                 /\ nextId' = nextId + Len(parsed)
                 /\ Plain("loadTypemap")
                 /\ UNCHANGED hasUnsavedChanges

legacy_addNewRule ==
    /\ Len(typemapRules) < MaxRules
    /\ nextId <= MaxId
    /\ typemapRules' = Append(typemapRules,
           Rule(nextId, Len(typemapRules) + 1, FtBinary, PatNew, <<>>, FALSE))
    /\ nextId' = nextId + 1
    /\ Plain("addNewRule")
    /\ UNCHANGED hasUnsavedChanges

legacy_deleteRule ==
    \E ruleId \in RuleIds(typemapRules), confirmed \in BOOLEAN :
        /\ typemapRules' =
               IF confirmed
               THEN reorderRules(SelectSeq(typemapRules,
                                           LAMBDA r : r.id # ruleId))
               ELSE typemapRules
        /\ Plain(IF confirmed THEN "deleteRule" ELSE "deleteRuleCancelled")
        /\ UNCHANGED <<hasUnsavedChanges, nextId>>

\* The array with the elements at indexes i and j exchanged
swapSlots(rules, i, j) == [rules EXCEPT ![i] = rules[j], ![j] = rules[i]]

\* moveRuleUp of the earlier editor: exchange array slots, then reorderRules
legacy_moveRuleUpRules(rules, ruleId) ==
    LET ruleIndex == findIndexById(rules, ruleId)
    IN  IF ruleIndex > 1
        THEN reorderRules(swapSlots(rules, ruleIndex - 1, ruleIndex))
        ELSE rules

legacy_moveRuleDownRules(rules, ruleId) ==
    LET ruleIndex == findIndexById(rules, ruleId)
    IN  IF ruleIndex < Len(rules)
        THEN reorderRules(swapSlots(rules, ruleIndex, ruleIndex + 1))
        ELSE rules

legacy_moveRuleUp ==
    \E ruleId \in RuleIds(typemapRules) :
        /\ typemapRules' = legacy_moveRuleUpRules(typemapRules, ruleId)
        /\ Plain("moveRuleUp")
        /\ UNCHANGED <<hasUnsavedChanges, nextId>>

legacy_moveRuleDown ==
    \E ruleId \in RuleIds(typemapRules) :
        /\ typemapRules' = legacy_moveRuleDownRules(typemapRules, ruleId)
        /\ Plain("moveRuleDown")
        /\ UNCHANGED <<hasUnsavedChanges, nextId>>

\* The ids of the table rows as renderTable leaves them, for the default
\* sort (currentSortBy = "order"): the rules in ascending order of order
RECURSIVE idsOf(_)
idsOf(rules) ==
    IF Len(rules) = 0 THEN <<>> ELSE <<Head(rules).id>> \o idsOf(Tail(rules))

tableRows(rules) == idsOf(sortByOrder(rules))

\* tbody.insertBefore(draggedElement, targetRow) or (..., targetRow.nextSibling)
\* on the sequence of row ids
insertRow(rows, dragged, target, before) ==
    LET without == SelectSeq(rows, LAMBDA id : id # dragged)
        t == SetMin({i \in 1..Len(without) : without[i] = target})
        at == IF before THEN t ELSE t + 1
    IN  SubSeq(without, 1, at - 1) \o <<dragged>>
        \o SubSeq(without, at, Len(without))

\* updateRuleOrdersFromDOM: every rule gets the position of its row
updateRuleOrdersFromDOM(rules, rows) ==
    [i \in 1..Len(rules) |->
        LET at == {k \in 1..Len(rows) : rows[k] = rules[i].id}
        IN  IF at = {} THEN rules[i]
            ELSE [rules[i] EXCEPT !.order = SetMin(at)]]

\* drop: the dragged row is put before or after the row it is dropped on;
\* before says the pointer is in the upper half of that row
drop ==
    \E dragged \in RuleIds(typemapRules), target \in RuleIds(typemapRules),
       before \in BOOLEAN :
        /\ target # dragged
        /\ typemapRules' = updateRuleOrdersFromDOM(typemapRules,
               insertRow(tableRows(typemapRules), dragged, target, before))
        /\ Plain("drop")
        /\ UNCHANGED <<hasUnsavedChanges, nextId>>

\* testPath: typed is the content of the input; an empty path clears the
\* result.  An exception that left the loop would end the handler with the
\* result as it was.
testPath ==
    \E typed \in TestPaths :
        LET path == trim(typed)
            m == matchingRule(typemapRules, path)
            threw == path # <<>> /\ testPathThrows(typemapRules, path)
        IN  /\ testResult' =
                   IF threw THEN testResult
                   ELSE IF path = <<>> THEN NoTestResult
                   ELSE IF m = 0
                   THEN [matched |-> FALSE, filetype |-> <<>>, order |-> 0,
                         path |-> path]
                   ELSE [matched |-> TRUE,
                         filetype |-> typemapRules[m].filetype,
                         order |-> typemapRules[m].order, path |-> path]
            /\ lastOp' = IF threw THEN "testPathThrew" ELSE "testPath"
            /\ NoMerge
            /\ loadedData' = <<>>
            /\ UNCHANGED <<typemapRules, hasUnsavedChanges, nextId, sentText,
                           savePending>>

NextLegacy ==
    \/ legacy_loadTypemap
    \/ legacy_addNewRule
    \/ legacy_deleteRule
    \/ legacy_moveRuleUp
    \/ legacy_moveRuleDown
    \/ drop
    \/ testPath

SpecLegacy == Init /\ [][NextLegacy]_vars

-----------------------------------------------------------------------------
(* P4Utils.loadUrlWithFallback (shared/p4-utilities.js) *)

\* A text is a sequence of parts here; a template literal concatenates
other(t) == IF t = "xhr" THEN "fetch" ELSE "xhr"

Urls == {"https://host/a.txt", "https://host/b.txt"}

\* What a transport has come to: a content, or an error with its message
Resolved(content) == [state |-> "ok", value |-> content]
Rejected(message) == [state |-> "failed", value |-> message]

\* What the request of loadUrlWithXHR comes to first: readyState 4 with a
\* status, the error event or the timeout event
XhrAnswers ==
    { [event |-> "readystatechange", status |-> "200", statusText |-> "OK",
       responseText |-> <<"text //a (xhr)">>],
      [event |-> "readystatechange", status |-> "404",
       statusText |-> "Not Found", responseText |-> <<>>],
      [event |-> "readystatechange", status |-> "0", statusText |-> "",
       responseText |-> <<>>],
      [event |-> "error", status |-> "0", statusText |-> "",
       responseText |-> <<>>],
      [event |-> "timeout", status |-> "0", statusText |-> "",
       responseText |-> <<>>] }

\* loadUrlWithXHR: the promise for one answer of the request
loadUrlWithXHR(answer) ==
    IF answer.event = "readystatechange"
    THEN IF answer.status = "200"
         THEN Resolved(answer.responseText)
         ELSE Rejected(<<"XHR failed with status: ", answer.status, " ",
                         answer.statusText>>)
    ELSE IF answer.event = "error"
    THEN Rejected(<<"XHR network error">>)
    ELSE Rejected(<<"XHR request timed out">>)

\* What fetch(url, ...) comes to: a rejection, or a response with its ok
\* flag, status and text
FetchAnswers ==
    { [rejected |-> TRUE, message |-> <<"Failed to fetch">>, ok |-> FALSE,
       status |-> "0", statusText |-> "", text |-> <<>>],
      [rejected |-> FALSE, message |-> <<>>, ok |-> FALSE,
       status |-> "404", statusText |-> "Not Found", text |-> <<>>],
      [rejected |-> FALSE, message |-> <<>>, ok |-> TRUE,
       status |-> "200", statusText |-> "OK",
       text |-> <<"text //a (fetch)">>] }

\* The fetch block: await fetch, throw when the response is not ok, await
\* response.text()
fetchContent(answer) ==
    IF answer.rejected THEN Rejected(answer.message)
    ELSE IF ~answer.ok
    THEN Rejected(<<"HTTP ", answer.status, ": ", answer.statusText>>)
    ELSE Resolved(answer.text)

Answers(t) == IF t = "xhr" THEN XhrAnswers ELSE FetchAnswers
transportOutcome(t, answer) ==
    IF t = "xhr" THEN loadUrlWithXHR(answer) ELSE fetchContent(answer)

\* Mutation of preferredTransport: p4vjs is not looked at
preferredTransportByOrigin(isFileOrigin, p4vjsDefined) ==
    IF isFileOrigin THEN "xhr" ELSE "fetch"

\* The transport tried first
preferredTransport(isFileOrigin, p4vjsDefined) ==
    IF isFileOrigin \/ p4vjsDefined THEN "xhr" ELSE "fetch"

\* The error thrown when the fallback has failed too
unableToLoad(url, firstMessage) ==
    <<"Unable to load content from ", url, ": ">> \o firstMessage

\* loadUrlWithFallback(url) up to its first await
loadUrlWithFallback ==
    /\ urlLoad.pc \in {"idle", "resolved", "rejected"}
    /\ \E url \in Urls, isFileOrigin \in BOOLEAN, p4vjsDefined \in BOOLEAN :
           urlLoad' =
               [NoUrlLoad EXCEPT
                   !.pc = "first", !.url = url,
                   !.isFileOrigin = isFileOrigin,
                   !.p4vjsDefined = p4vjsDefined,
                   !.attempts =
                       <<preferredTransport(isFileOrigin, p4vjsDefined)>>]
    /\ UNCHANGED <<editorVars, overlapCheck>>

\* The first transport settles: its content is returned, or its error is
\* caught and the other transport is started
firstTransportSettles ==
    /\ urlLoad.pc = "first"
    /\ \E answer \in Answers(urlLoad.attempts[1]) :
           LET t == urlLoad.attempts[1]
               o == transportOutcome(t, answer)
           IN  urlLoad' =
                   IF o.state = "ok"
                   THEN [urlLoad EXCEPT !.pc = "resolved",
                                        !.outcomes[t] = o, !.settled = o]
                   ELSE [urlLoad EXCEPT !.pc = "second",
                                        !.outcomes[t] = o,
                                        !.attempts = Append(@, other(t))]
    /\ UNCHANGED <<editorVars, overlapCheck>>

\* The fallback settles: its content is returned, or a new error is thrown
secondTransportSettles ==
    /\ urlLoad.pc = "second"
    /\ \E answer \in Answers(urlLoad.attempts[2]) :
           LET t == urlLoad.attempts[2]
               o == transportOutcome(t, answer)
           IN  urlLoad' =
                   IF o.state = "ok"
                   THEN [urlLoad EXCEPT !.pc = "resolved",
                                        !.outcomes[t] = o, !.settled = o]
                   ELSE [urlLoad EXCEPT
                            !.pc = "rejected", !.outcomes[t] = o,
                            !.settled = Rejected(unableToLoad(urlLoad.url,
                                urlLoad.outcomes[other(t)].value))]
    /\ UNCHANGED <<editorVars, overlapCheck>>

NextUrl ==
    \/ loadUrlWithFallback
    \/ firstTransportSettles
    \/ secondTransportSettles

SpecUrl == Init /\ [][NextUrl]_vars

-----------------------------------------------------------------------------
(* checkPatternOverlap on its own *)

PatBareTxt == <<".",".",".",".","t","x","t">>
PatFileTxt == <<"/","/","a",".","t","x","t">>

\* The patterns checkPatternOverlap is called with
OverlapPatterns ==
    {<<>>, BroadWildcard, PatNew, PatTxt, PatBareTxt, PatFileTxt,
     PatSpecialTxt, PatPsd, PatHash, PatA, PatDepot}

\* One call of checkPatternOverlap, as checkRuleConflicts makes it for two
\* rules of the list
checkPatternOverlapCall ==
    /\ \E pattern1 \in OverlapPatterns, pattern2 \in OverlapPatterns :
           overlapCheck' =
               [called |-> TRUE, pattern1 |-> pattern1, pattern2 |-> pattern2,
                result |-> checkPatternOverlap(pattern1, pattern2)]
    /\ UNCHANGED <<editorVars, urlLoad>>

NextOverlap == checkPatternOverlapCall

SpecOverlap == Init /\ [][NextOverlap]_vars

-----------------------------------------------------------------------------
(* Claims *)

\* C1: after any sequence of load, addNewRule, confirmed deleteRule,
\* moveRuleUp, moveRuleDown and mergeTemplateRules, the order values of
\* typemapRules are exactly 1..N, N the number of rules, none twice.
C1_OrderIsPermutation ==
    /\ Orders(typemapRules) = 1..Len(typemapRules)
    /\ \A i, j \in 1..Len(typemapRules) :
           typemapRules[i].order = typemapRules[j].order => i = j

\* C1 witness: three rules left by a confirmed delete or a merge, after
\* which a move has taken the order values away from the array positions.
C1_Witness ==
    /\ Len(typemapRules) = 3
    /\ lastOp \in {"moveRuleUp", "moveRuleDown"}
    /\ \E i \in 1..3 : typemapRules[i].order # i
    /\ \E i \in 1..3 : typemapRules[i].fromTemplate

\* C2: every conflict checkRuleConflicts reports for a rule names a rule
\* whose order is strictly greater than the order of that rule.
C2_ConflictsNameLaterOrder ==
    \A i \in 1..Len(typemapRules) :
        LET conflicts == checkRuleConflicts(typemapRules, i)
        IN  \A k \in 1..Len(conflicts) :
                conflicts[k].order > typemapRules[i].order

\* What the claims about the merge say of one incoming rule: the filetype of
\* the first rule with the same pattern among the rules present before the
\* merge and the incoming rules listed before this one (<<>> when there is
\* none), and the decision that follows from it.
ExistingFiletype(pre, tpl, i) ==
    LET inPre == {k \in 1..Len(pre) : pre[k].pattern = tpl[i].pattern}
        inTpl == {j \in 1..(i - 1) : tpl[j].pattern = tpl[i].pattern}
    IN  IF inPre # {} THEN <<pre[SetMin(inPre)].filetype>>
        ELSE IF inTpl # {} THEN <<tpl[SetMin(inTpl)].filetype>>
        ELSE <<>>

Decision(pre, tpl, i) ==
    LET e == ExistingFiletype(pre, tpl, i)
    IN  IF e = <<>> THEN "added"
        ELSE IF e[1] = tpl[i].filetype THEN "skipped"
        ELSE "conflict"

\* The indexes of tpl, in order, whose decision is one of kinds
Decided(pre, tpl, kinds) ==
    SelectSeq([i \in 1..Len(tpl) |-> i],
              LAMBDA i : Decision(pre, tpl, i) \in kinds)

TemplateFields(r) ==
    [filetype |-> r.filetype, pattern |-> r.pattern, comment |-> r.comment]

\* The rules of post whose id no rule of pre has, in array order
NewRules(pre, post) ==
    SelectSeq(post, LAMBDA r : r.id \notin RuleIds(pre))

MergeStep == lastOp' = "loadSelectedTemplate"

\* C6: mergeTemplateRules decides each incoming rule by exact pattern
\* equality: no rule with the pattern - appended with fromTemplate set and
\* recorded as added; the rule found with the pattern has the same filetype
\* - nothing appended, recorded as skipped; it has another filetype - the
\* incoming rule appended and a conflict recorded with both filetypes.
C6_MergeDecidesByPattern ==
    [][MergeStep =>
        LET pre == typemapRules
            post == typemapRules'
            tpl == mergeTpl'
            res == mergeResult'
            addIdx == Decided(pre, tpl, {"added"})
            skipIdx == Decided(pre, tpl, {"skipped"})
            confIdx == Decided(pre, tpl, {"conflict"})
            pushIdx == Decided(pre, tpl, {"added", "conflict"})
            new == NewRules(pre, post)
        IN  /\ Len(res.added) = Len(addIdx)
            /\ \A k \in 1..Len(addIdx) : res.added[k] = tpl[addIdx[k]]
            /\ Len(res.skipped) = Len(skipIdx)
            /\ \A k \in 1..Len(skipIdx) :
                   /\ TemplateFields(res.skipped[k]) = tpl[skipIdx[k]]
                   /\ res.skipped[k].reason = "Same filetype already exists"
            /\ Len(res.conflicts) = Len(confIdx)
            /\ \A k \in 1..Len(confIdx) :
                   /\ TemplateFields(res.conflicts[k]) = tpl[confIdx[k]]
                   /\ <<res.conflicts[k].existingFiletype>> =
                          ExistingFiletype(pre, tpl, confIdx[k])
                   /\ res.conflicts[k].newFiletype = tpl[confIdx[k]].filetype
            /\ Len(new) = Len(pushIdx)
            /\ \A k \in 1..Len(pushIdx) :
                   /\ TemplateFields(new[k]) = tpl[pushIdx[k]]
                   /\ new[k].fromTemplate
    ]_vars

\* C6 witness: one merge that recorded an added, a skipped and a conflict
\* entry, into a list that was not empty.
C6_Witness ==
    /\ lastOp = "loadSelectedTemplate"
    /\ Len(mergeResult.added) >= 1
    /\ Len(mergeResult.skipped) >= 1
    /\ Len(mergeResult.conflicts) >= 1
    /\ \E i \in 1..Len(typemapRules) : ~typemapRules[i].fromTemplate

\* C7: merging the same template again, from the state the first merge
\* left, records only skipped entries and appends no rule.
C7_SecondMergeOnlySkips ==
    [][(/\ lastOp = "loadSelectedTemplate"
        /\ MergeStep
        /\ mergeTpl' = mergeTpl)
       => /\ mergeResult'.added = <<>>
          /\ mergeResult'.conflicts = <<>>
          /\ Len(mergeResult'.skipped) = Len(mergeTpl')
          /\ Len(typemapRules') = Len(typemapRules)
    ]_vars

\* C8: mergeTemplateRules removes no rule that was there and changes none
\* of its id, filetype, pattern, comment and order; the rules it appends
\* get the orders above all of those, in the order the incoming rules are
\* listed.
C8_MergeKeepsExistingRules ==
    [][MergeStep =>
        LET pre == typemapRules
            post == typemapRules'
            tpl == mergeTpl'
            pushIdx == Decided(pre, tpl, {"added", "conflict"})
        IN  /\ \A i \in 1..Len(pre) : \E j \in 1..Len(post) : post[j] = pre[i]
            /\ \A j \in 1..Len(post) :
                   post[j].id \notin RuleIds(pre) =>
                       /\ \A i \in 1..Len(pre) : post[j].order > pre[i].order
                       /\ post[j].order - Len(pre) \in 1..Len(pushIdx)
                       /\ TemplateFields(post[j]) =
                              tpl[pushIdx[post[j].order - Len(pre)]]
    ]_vars

\* C8 witness: a merge that appended two rules to a list that held a rule
\* which no template brought.
C8_Witness ==
    /\ lastOp = "loadSelectedTemplate"
    /\ Len(mergeResult.added) + Len(mergeResult.conflicts) >= 2
    /\ \E i \in 1..Len(typemapRules) : ~typemapRules[i].fromTemplate

\* C9: the report of a merge counts every incoming rule once, added +
\* skipped + conflicts = number of incoming rules, and the list grows by
\* added + conflicts rules.
C9_ReportCountsAddUp ==
    [][MergeStep =>
        /\ Len(mergeResult'.added) + Len(mergeResult'.skipped)
               + Len(mergeResult'.conflicts) = Len(mergeTpl')
        /\ Len(typemapRules') = Len(typemapRules)
               + Len(mergeResult'.added) + Len(mergeResult'.conflicts)
    ]_vars

\* C9 witness: a merge of three incoming rules that appended one rule on a
\* conflict and skipped the others.
C9_Witness ==
    /\ lastOp = "loadSelectedTemplate"
    /\ Len(mergeTpl) = 3
    /\ Len(mergeResult.conflicts) = 1
    /\ Len(mergeResult.skipped) = 2

\* C10: with the rules (order 1, "//....txt", text) and (order 2,
\* "//special/....txt", binary), checkRuleConflicts on rule 1 reports that
\* it is overridden by rule 2.
C10_NestedPathIsOverride ==
    (/\ Len(typemapRules) = 2
     /\ typemapRules[1].order = 1
     /\ typemapRules[1].pattern = PatTxt
     /\ typemapRules[1].filetype = FtText
     /\ typemapRules[2].order = 2
     /\ typemapRules[2].pattern = PatSpecialTxt
     /\ typemapRules[2].filetype = FtBinary)
    => \E k \in 1..Len(checkRuleConflicts(typemapRules, 1)) :
           checkRuleConflicts(typemapRules, 1)[k] =
               [kind |-> "Overridden", order |-> 2, filetype |-> FtBinary]

\* The (filetype, pattern, comment) tuples of a rule list, in array order
RECURSIVE Tuples(_)
Tuples(rules) ==
    IF Len(rules) = 0 THEN <<>>
    ELSE <<TemplateFields(Head(rules))>> \o Tuples(Tail(rules))

WellFormed(rules) ==
    \A i \in 1..Len(rules) :
        rules[i].filetype # <<>> /\ rules[i].pattern # <<>>

\* C4: when every rule has a filetype and a pattern that are not empty,
\* parsing the text generateTypemapText produces gives back the (filetype,
\* pattern, comment) tuples of the rules, in ascending order of order; for
\* the text-form parser on the text and for the template parser on the form
\* data the text is sent in.
C4_RoundTrip ==
    WellFormed(typemapRules) =>
        /\ Tuples(legacy_parseTypemapData(generateTypemapText(typemapRules), 1))
               = Tuples(sortByOrder(typemapRules))
        /\ parseTemplateContent(formData(typemapRules))
               = Tuples(sortByOrder(typemapRules))

\* C5: when a rule has an empty pattern or an empty filetype, no form data
\* holding a line for that rule is handed to the server.
C5_EmptyFieldRuleNotSent ==
    lastOp = "saveTypemapSend" =>
        \A i \in 1..Len(typemapRules) :
            (typemapRules[i].pattern = <<>> \/ typemapRules[i].filetype = <<>>)
            => \A k \in 1..Len(splitLines(sentText)) :
                   splitLines(sentText)[k] # ruleLine(typemapRules[i])

\* The indexes of the rules whose pattern matches the path
Matching(rules, path) ==
    {i \in 1..Len(rules) : PathMatches[path, rules[i].pattern] = "true"}

\* C3: the path test shows the filetype of the matching rule with the
\* highest order, and no match when no pattern matches.
C3_TestPathHighestOrder ==
    (lastOp = "testPath" /\ testResult.path # <<>>) =>
        LET hits == Matching(typemapRules, testResult.path)
        IN  IF hits = {} THEN ~testResult.matched
            ELSE /\ testResult.matched
                 /\ \E i \in hits :
                        /\ \A j \in hits :
                               typemapRules[j].order <= typemapRules[i].order
                        /\ testResult.filetype = typemapRules[i].filetype

\* Whether the conflict descriptions of the rule at index i name the rule at
\* index j
NamedBy(rules, i, j) ==
    \E k \in 1..Len(checkRuleConflicts(rules, i)) :
        checkRuleConflicts(rules, i)[k].order = rules[j].order

\* A step of moveRuleUp or moveRuleDown that exchanged two order values
MoveStep ==
    /\ lastOp' \in {"moveRuleUp", "moveRuleDown"}
    /\ typemapRules' # typemapRules

\* C11: after moveRuleUp or moveRuleDown has exchanged the orders of two
\* rules with overlapping patterns, the rule that now has the lower order is
\* flagged with the conflict and the other one no longer is.
C11_SwapChangesFlaggedRule ==
    [][MoveStep =>
        \A i, j \in 1..Len(typemapRules') :
            ( /\ typemapRules'[i].order # typemapRules[i].order
              /\ typemapRules'[j].order # typemapRules[j].order
              /\ typemapRules'[i].order < typemapRules'[j].order
              /\ checkPatternOverlap(typemapRules'[i].pattern,
                                     typemapRules'[j].pattern) # "none" )
            => /\ NamedBy(typemapRules', i, j)
               /\ ~NamedBy(typemapRules', j, i)]_vars

\* The indexes of the rules of greater order whose pattern overlaps the
\* pattern of the rule at index i
LaterOverlapping(rules, i) ==
    {j \in 1..Len(rules) :
        /\ rules[j].order > rules[i].order
        /\ checkPatternOverlap(rules[i].pattern, rules[j].pattern) # "none"}

\* The description of the conflict of rule r with the later rule s
Description(r, s) ==
    [kind |-> IF r.filetype # s.filetype THEN "Overridden" ELSE "Duplicated",
     order |-> s.order, filetype |-> s.filetype]

\* C12: the conflict descriptions of a rule are one per later rule with an
\* overlapping pattern and none for any other rule, "Overridden" with the
\* later rule's order and filetype when the filetypes differ and
\* "Duplicated" with its order when they are equal, in ascending order of
\* the later rules' order.
C12_OneDescriptionPerLaterRule ==
    \A i \in 1..Len(typemapRules) :
        LET c == checkRuleConflicts(typemapRules, i)
            later == LaterOverlapping(typemapRules, i)
        IN  /\ Len(c) = Cardinality(later)
            /\ \A j \in later :
                   \E k \in 1..Len(c) :
                       c[k] = Description(typemapRules[i], typemapRules[j])
            /\ \A k, l \in 1..Len(c) : k < l => c[k].order < c[l].order

\* Whether some rule of the list has this pattern
HasPattern(rules, pattern) ==
    \E i \in 1..Len(rules) : rules[i].pattern = pattern

\* C13: the path test of "//depot/foo.txt" shows a match when a rule has
\* the pattern "//....txt", and the path test of "//depot/foo.bin" shows no
\* match when "//....txt" is the only pattern of the list.
C13_FourDotsExtensionMatches ==
    lastOp = "testPath" =>
        /\ (testResult.path = PathFooTxt /\ HasPattern(typemapRules, PatTxt))
               => testResult.matched
        /\ ( /\ testResult.path = PathFooBin
             /\ \A i \in 1..Len(typemapRules) :
                    typemapRules[i].pattern = PatTxt )
               => ~testResult.matched

\* C14: the path test of "//depot/a/b/c", a path that starts with the
\* prefix before the three dots, shows a match when a rule has the pattern
\* "//depot/...".
C14_ThreeDotsCrossSeparators ==
    ( /\ lastOp = "testPath"
      /\ testResult.path = PathABC
      /\ HasPattern(typemapRules, PatDepot) ) => testResult.matched

\* C15: no exception leaves pathMatchesPattern; a pattern whose translation
\* does not compile counts as no match, and the path test shows a match
\* exactly when the translation of some rule's pattern compiles and matches.
C15_BadPatternIsNoMatch ==
    /\ lastOp # "testPathThrew"
    /\ (lastOp = "testPath" /\ testResult.path # <<>>) =>
           (testResult.matched <=>
               \E i \in 1..Len(typemapRules) :
                   RegexTests[testResult.path, typemapRules[i].pattern] = "true")

\* C15 witness: a path test that showed a match on a list holding a rule
\* whose pattern does not compile.
C15_Witness ==
    /\ lastOp = "testPath"
    /\ testResult.matched
    /\ \E i \in 1..Len(typemapRules) :
           RegexTests[testResult.path, typemapRules[i].pattern] = "throws"

\* The line the claim describes for a rule: 8 blanks, the filetype, one
\* blank, the pattern, and " ## " with the trimmed comment when the trimmed
\* comment is not empty
ExpectedLine(r) ==
    <<" ", " ", " ", " ", " ", " ", " ", " ">> \o r.filetype \o <<" ">>
    \o r.pattern
    \o (IF trim(r.comment) = <<>> THEN <<>>
        ELSE <<" ", "#", "#", " ">> \o trim(r.comment))

\* The rule whose order is k
RuleOfOrder(rules, k) ==
    rules[CHOOSE i \in 1..Len(rules) : rules[i].order = k]

\* C16: the text handed to the server is, after the form header, one line
\* per rule, the k-th line being the line of the rule whose order is k,
\* whatever the positions of the rules in the array.
C16_OneLinePerRuleByOrder ==
    lastOp = "saveTypemapSend" =>
        sentText = FormHeader
            \o join([k \in 1..Len(typemapRules) |->
                        ExpectedLine(RuleOfOrder(typemapRules, k))],
                    <<"\n">>)

\* C16 witness: a save of a list whose array order is not the order of the
\* order values and that holds a rule with a comment.
C16_Witness ==
    /\ lastOp = "saveTypemapSend"
    /\ \E i \in 1..Len(typemapRules) : typemapRules[i].order # i
    /\ \E i \in 1..Len(typemapRules) : trim(typemapRules[i].comment) # <<>>

\* The properties of the loaded record whose key is TypeMap<i>
TypeMapProperties(record) ==
    {i \in 1..Len(record) :
        /\ startsWith(record[i].key, KeyTypeMap)
        /\ ~startsWith(record[i].key, KeyTypeMapComment)}

\* The number that follows "TypeMap" in the key of a property
KeyNumber(raw) == parseInt(SubSeq(raw.key, Len(KeyTypeMap) + 1, Len(raw.key)))

\* The whitespace-separated tokens of a value before its "##" marker
TokensBeforeMarker(value) ==
    LET t == trim(value)
        at == indexOf(t, <<"#", "#">>)
    IN  splitWs(trim(IF at >= 0 THEN SubSeq(t, 1, at) ELSE t))

\* A malformed entry: blank, starting with "##", or with fewer than two
\* tokens before the marker
Malformed(value) ==
    \/ trim(value) = <<>>
    \/ startsWith(trim(value), <<"#", "#">>)
    \/ Len(TokensBeforeMarker(value)) < 2

\* The properties of the record that are TypeMap<i> entries and well formed
Producing(record) ==
    {i \in TypeMapProperties(record) : ~Malformed(record[i].value)}

\* C17: after a load of a record, the k-th rule has order k and comes from
\* the well-formed TypeMap<i> entry with the k-th smallest number i, whatever
\* the enumeration order of the keys, the gaps between the numbers and the
\* entries skipped.
C17_RulesInNumericKeyOrder ==
    (lastOp = "loadTypemap" /\ Len(loadedData) > 0) =>
        LET record == loadedData[1]
            prod == Producing(record)
        IN  /\ Len(typemapRules) = Cardinality(prod)
            /\ \A k \in 1..Len(typemapRules) :
                   /\ typemapRules[k].order = k
                   /\ \E i \in prod :
                          /\ Cardinality({j \in prod :
                                 KeyNumber(record[j]) < KeyNumber(record[i])})
                                 = k - 1
                          /\ typemapRules[k].filetype
                                 = TokensBeforeMarker(record[i].value)[1]
                          /\ typemapRules[k].pattern
                                 = join(Tail(TokensBeforeMarker(record[i].value)),
                                        <<" ">>)

\* C17 witness: a load of a record that names a greater number before a
\* smaller one, with a gap and a skipped entry between them, and gave two
\* rules.
C17_Witness ==
    /\ lastOp = "loadTypemap"
    /\ Len(typemapRules) = 2
    /\ Len(loadedData) > 0
    /\ \E i, j, m \in TypeMapProperties(loadedData[1]) :
           /\ i < j
           /\ KeyNumber(loadedData[1][i]) >= 10
           /\ KeyNumber(loadedData[1][j]) = 2
           /\ KeyNumber(loadedData[1][m]) = 5
           /\ Malformed(loadedData[1][m].value)
           /\ {i, j} \subseteq Producing(loadedData[1])

\* C18: a load never stops at a malformed entry: the rules loaded are those
\* of the well-formed entries, one each, a malformed entry gives none, and
\* a missing or empty answer gives the empty list.
C18_MalformedEntriesSkipped ==
    lastOp = "loadTypemap" =>
        IF Len(loadedData) = 0 THEN typemapRules = <<>>
        ELSE LET record == loadedData[1]
             IN  /\ \A i \in Producing(record) :
                        \E k \in 1..Len(typemapRules) :
                            /\ typemapRules[k].filetype
                                   = TokensBeforeMarker(record[i].value)[1]
                            /\ typemapRules[k].pattern
                                   = join(Tail(TokensBeforeMarker(
                                                   record[i].value)), <<" ">>)
                 /\ \A k \in 1..Len(typemapRules) :
                        \E i \in Producing(record) :
                            typemapRules[k].filetype
                                = TokensBeforeMarker(record[i].value)[1]
                 /\ Len(typemapRules) <= Cardinality(Producing(record))

\* C18 witness: a load that gave a rule from an entry numbered after a
\* blank entry, an entry starting with "##" and a one-token entry.
C18_Witness ==
    /\ lastOp = "loadTypemap"
    /\ Len(loadedData) > 0
    /\ Len(typemapRules) >= 1
    /\ \E i \in Producing(loadedData[1]),
          b, h, t \in TypeMapProperties(loadedData[1]) :
           /\ trim(loadedData[1][b].value) = <<>>
           /\ startsWith(trim(loadedData[1][h].value), <<"#", "#">>)
           /\ Len(TokensBeforeMarker(loadedData[1][t].value)) = 1
           /\ \A m \in {b, h, t} :
                  KeyNumber(loadedData[1][m]) < KeyNumber(loadedData[1][i])

\* The lines of the template text that follow the first "TypeMap:" line, do
\* not start with "#" and have two tokens or more before "##"
RuleLinesOf(lines) ==
    LET markers == {i \in 1..Len(lines) :
                       trim(lines[i]) = <<"T", "y", "p", "e", "M", "a", "p", ":">>}
    IN  {i \in 1..Len(lines) :
            /\ \E m \in markers : m < i
            /\ ~startsWith(trim(lines[i]), <<"#">>)
            /\ Len(TokensBeforeMarker(lines[i])) >= 2}

\* C19: the rules parsed from a template text are one per line that follows
\* the first "TypeMap:" line, does not start with "#" and has two tokens or
\* more before "##", in text order; lines before the marker and lines
\* starting with "#" give no rule.
C19_TemplateRulesFollowMarker ==
    lastOp = "loadSelectedTemplate" =>
        LET lines == splitLines(templateContent)
            from == RuleLinesOf(lines)
        IN  /\ Len(mergeTpl) = Cardinality(from)
            /\ \A k \in 1..Len(mergeTpl) :
                   \E i \in from :
                       /\ Cardinality({j \in from : j < i}) = k - 1
                       /\ mergeTpl[k].filetype = TokensBeforeMarker(lines[i])[1]
                       /\ mergeTpl[k].pattern
                              = join(Tail(TokensBeforeMarker(lines[i])), <<" ">>)

\* C19 witness: a template text with a "#" line and a two-token line before
\* the marker, and rules after it.
C19_Witness ==
    /\ lastOp = "loadSelectedTemplate"
    /\ Len(mergeTpl) >= 2
    /\ LET lines == splitLines(templateContent)
       IN  \E c, r, m \in 1..Len(lines) :
               /\ c < m /\ r < m
               /\ startsWith(trim(lines[c]), <<"#">>)
               /\ ~startsWith(trim(lines[r]), <<"#">>)
               /\ Len(TokensBeforeMarker(lines[r])) >= 2
               /\ \A i \in 1..m : trim(lines[i]) = TypeMapMarker <=> i = m

\* C20: when loadTemplateFile rejects, loadSelectedTemplate leaves the rule
\* list and the change flag as they were: nothing is merged.
C20_RejectedTemplateMergesNothing ==
    [][lastOp' = "loadSelectedTemplateFailed" =>
          /\ typemapRules' = typemapRules
          /\ hasUnsavedChanges' = hasUnsavedChanges
          /\ nextId' = nextId]_vars

\* C20 witness: a rejected template load on a saved list to which every
\* template would have added a rule.
C20_Witness ==
    /\ lastOp = "loadSelectedTemplateFailed"
    /\ ~hasUnsavedChanges
    /\ Len(typemapRules) >= 1
    /\ \A content \in TemplateContents :
           Len(mergeTemplateRules(typemapRules, ParsedTemplates[content],
                                  nextId).rules) > Len(typemapRules)

\* C21: a load that completes leaves exactly the parse of the data the
\* server returned, whatever the list held before, with hasUnsavedChanges
\* false; a load that returns an error leaves the list as it was.
C21_LoadReplacesRules ==
    [][ /\ lastOp' = "loadTypemap" =>
              /\ typemapRules' = parseTypemapData(loadedData', nextId)
              /\ ~hasUnsavedChanges'
        /\ lastOp' = "loadTypemapFailed" => typemapRules' = typemapRules ]_vars

\* C21 witness: a completed load of a list of rules after rules had been
\* made before it.
C21_Witness ==
    /\ lastOp = "loadTypemap"
    /\ Len(typemapRules) >= 1
    /\ nextId > Len(typemapRules) + 1
    /\ ~hasUnsavedChanges

\* The texts the lists read from the server serialize to
ServerTexts == {formData(ParsedServerData[data, 1]) : data \in ServerData}

\* C22: when a save has completed and left hasUnsavedChanges false with no
\* request in flight, the rule list serializes to the text that save wrote
\* or to the serialization of a list read from the server; an edit made
\* while the save was awaiting the server is still shown as unsaved.
C22_CleanFlagMeansInSync ==
    [][(lastOp' = "saveTypemapDone" /\ ~hasUnsavedChanges' /\ ~savePending')
          => \/ formData(typemapRules') = sentText
             \/ formData(typemapRules') \in ServerTexts]_vars

\* Whether the list after differs from the list before in order values only
SameButOrders(before, after) ==
    /\ Len(after) = Len(before)
    /\ \A j \in 1..Len(before) :
           [after[j] EXCEPT !.order = before[j].order] = before[j]

\* Whether after is before with the order k of the rule at index i
\* exchanged with the order k + by of another rule, and nothing changed
\* when no rule has the order k + by
OrderExchanged(before, after, i, by) ==
    LET k == before[i].order
    IN  /\ SameButOrders(before, after)
        /\ IF k + by \in 1..Len(before)
           THEN \A j \in 1..Len(before) :
                    after[j].order =
                        IF j = i THEN k + by
                        ELSE IF before[j].order = k + by THEN k
                        ELSE before[j].order
           ELSE after = before

\* C23: moveRuleUp on a rule of order k > 1 exchanges its order with the
\* rule of order k - 1, moveRuleDown on a rule of order k < N with the rule
\* of order k + 1, and nothing else changes; a move of the first rule up or
\* of the last rule down changes nothing, hasUnsavedChanges included.
C23_MoveExchangesTwoOrders ==
    [][ /\ \A i \in 1..Len(typemapRules) :
              /\ OrderExchanged(typemapRules,
                     moveRuleUpRules(typemapRules, typemapRules[i].id), i, -1)
              /\ OrderExchanged(typemapRules,
                     moveRuleDownRules(typemapRules, typemapRules[i].id), i, 1)
        /\ (lastOp' \in {"moveRuleUp", "moveRuleDown"}
              /\ typemapRules' = typemapRules)
               => hasUnsavedChanges' = hasUnsavedChanges ]_vars

\* C23 witness: a move has exchanged two orders of a list of three rules,
\* so that the array order is not the order of the order values.
C23_Witness ==
    /\ lastOp \in {"moveRuleUp", "moveRuleDown"}
    /\ Len(typemapRules) = 3
    /\ hasUnsavedChanges
    /\ \E i \in 1..Len(typemapRules) : typemapRules[i].order # i

\* The rule of the list with the given id
RuleById(rules, id) == rules[findIndexById(rules, id)]

\* Whether after is before without the rule at index i (of order k): the
\* other rules are all there, with their fields, in the same relative order
\* of their order values, orders below k kept and orders above k one less
DeletedAt(before, after, i) ==
    LET k    == before[i].order
        kept == RuleIds(before) \ {before[i].id}
    IN  /\ Len(after) = Len(before) - 1
        /\ RuleIds(after) = kept
        /\ \A id \in kept :
               LET old == RuleById(before, id)
                   new == RuleById(after, id)
               IN  /\ [new EXCEPT !.order = old.order] = old
                   /\ new.order = IF old.order < k THEN old.order
                                  ELSE old.order - 1
        /\ \A a, b \in kept :
               RuleById(before, a).order < RuleById(before, b).order
                   => RuleById(after, a).order < RuleById(after, b).order

\* C24: a confirmed deleteRule of the rule of order k removes exactly that
\* rule, keeps the relative order of the others, keeps the orders below k
\* and decreases the orders above k by one; a delete that is not confirmed
\* changes neither the list nor hasUnsavedChanges.
C24_DeleteClosesTheGap ==
    [][ /\ lastOp' = "deleteRule" =>
               \E i \in 1..Len(typemapRules) :
                   DeletedAt(typemapRules, typemapRules', i)
        /\ lastOp' = "deleteRuleCancelled" =>
               /\ typemapRules' = typemapRules
               /\ hasUnsavedChanges' = hasUnsavedChanges ]_vars

\* C24 witness: a rule has been deleted from a list that moves had
\* rearranged: of the two rules left, the one created later comes first.
C24_Witness ==
    /\ lastOp = "deleteRule"
    /\ Len(typemapRules) = 2
    /\ typemapRules[1].id > typemapRules[2].id
    /\ hasUnsavedChanges

\* C25: after any operation that changes the rule list hasUnsavedChanges is
\* true and the Save button is enabled, and the flag stays true until a
\* saveTypemap or a loadTypemap completes successfully.
C25_ChangesStayUnsavedUntilSavedOrLoaded ==
    [][ /\ (typemapRules' # typemapRules /\ lastOp' # "loadTypemap")
               => /\ hasUnsavedChanges'
                  /\ ~saveButtonDisabled(hasUnsavedChanges')
        /\ (hasUnsavedChanges /\ ~hasUnsavedChanges')
               => lastOp' \in {"saveTypemapDone", "loadTypemap"} ]_vars

\* C25 witness: the file type editor has been applied to a rule while a
\* save was awaiting its answer, and the list is reported as changed.
C25_Witness ==
    /\ lastOp = "applyFileTypeEdit"
    /\ \E i \in 1..Len(typemapRules) : typemapRules[i].filetype = FtTextW
    /\ savePending
    /\ hasUnsavedChanges
    /\ ~saveButtonDisabled(hasUnsavedChanges)

\* C26: in the array-swapping variant (the move operations of the earlier
\* editor, each followed by reorderRules), moving a rule that is not first
\* one step up makes its order one smaller and the order of the rule before
\* it one larger, and symmetrically for moving down a rule that is not last.
C26_ArrayMoveShiftsOrders ==
    \A i \in 1..Len(typemapRules) :
        LET up   == legacy_moveRuleUpRules(typemapRules, typemapRules[i].id)
            down == legacy_moveRuleDownRules(typemapRules, typemapRules[i].id)
        IN  /\ i > 1 =>
                /\ RuleById(up, typemapRules[i].id).order
                       = typemapRules[i].order - 1
                /\ RuleById(up, typemapRules[i - 1].id).order
                       = typemapRules[i - 1].order + 1
            /\ i < Len(typemapRules) =>
                /\ RuleById(down, typemapRules[i].id).order
                       = typemapRules[i].order + 1
                /\ RuleById(down, typemapRules[i + 1].id).order
                       = typemapRules[i + 1].order - 1

\* C27: when the server write fails, saveTypemap does not throw: it ends
\* with the failure reported, typemapRules unchanged and hasUnsavedChanges
\* at the value it had.
C27_FailedSaveKeepsListAndFlag ==
    [][ /\ (savePending /\ ~savePending')
               => lastOp' \in {"saveTypemapDone", "saveTypemapFailed"}
        /\ lastOp' = "saveTypemapFailed"
               => /\ typemapRules' = typemapRules
                  /\ hasUnsavedChanges' = hasUnsavedChanges ]_vars

\* C27 witness: the save of a list with edited rules has failed and the
\* list is still reported as changed.
C27_Witness ==
    /\ lastOp = "saveTypemapFailed"
    /\ Len(typemapRules) >= 1
    /\ hasUnsavedChanges
    /\ ~savePending

\* Whether the text s ends with the text t
endsWith(s, t) ==
    /\ Len(t) <= Len(s)
    /\ SubSeq(s, Len(s) - Len(t) + 1, Len(s)) = t

C29_OverlapIsSymmetric ==
    overlapCheck.called =>
        LET swapped == checkPatternOverlap(overlapCheck.pattern2,
                                           overlapCheck.pattern1)
        IN  /\ (overlapCheck.result = "none") <=> (swapped = "none")
            /\ overlapCheck.result = swapped

\* C29 witness: "....txt" checked against "//....txt" is a specificity
\* overlap though only the second path contains the first.
C29_Witness ==
    /\ overlapCheck.called
    /\ overlapCheck.pattern1 = PatTxt
    /\ overlapCheck.pattern2 = PatBareTxt
    /\ overlapCheck.result = "specificity"
    /\ ~includes(stripWildcards(PatBareTxt), stripWildcards(PatTxt))

\* The order values of the list, by rule id
OrderOf(rules) ==
    [id \in RuleIds(rules) |-> RuleById(rules, id).order]

\* C30: for a rule that is not first, moveRuleUp followed by moveRuleDown on
\* the same rule restores every rule's order, and so does moveRuleDown
\* followed by moveRuleUp for a rule that is not last.
C30_UpThenDownRestoresOrders ==
    \A i \in 1..Len(typemapRules) :
        LET id   == typemapRules[i].id
            up   == moveRuleUpRules(typemapRules, id)
            down == moveRuleDownRules(typemapRules, id)
        IN  /\ typemapRules[i].order > 1 =>
                /\ up # typemapRules
                /\ OrderOf(moveRuleDownRules(up, id)) = OrderOf(typemapRules)
            /\ typemapRules[i].order < Len(typemapRules) =>
                /\ down # typemapRules
                /\ OrderOf(moveRuleUpRules(down, id)) = OrderOf(typemapRules)

\* C30 witness: moveRuleUp has brought the rule in the third array slot
\* to order 1, and moveRuleDown on that rule, the second move of the pair,
\* changes the list.
C30_Witness ==
    /\ lastOp = "moveRuleUp"
    /\ Len(typemapRules) = 3
    /\ \E i \in 1..3 :
           /\ typemapRules[i].order = 1
           /\ i = 3
           /\ moveRuleDownRules(typemapRules, typemapRules[i].id)
                  # typemapRules

====
